---------------------------- MODULE Spec2Model ----------------------------
(***************************************************************************)
(* Booking admission and booking status control of the travel-listing      *)
(* backend (listings/serializers.py): BookingCreateSerializer,             *)
(* BookingUpdateSerializer and ListingCreateUpdateSerializer, over the     *)
(* Listing and Booking tables.                                             *)
(*                                                                         *)
(* Dates are day numbers.  A listing's maximum_stay of None is NoMaxStay.  *)
(* An error set is what the serializer reports for one request: the field  *)
(* validators of a serializer all run and their errors are collected;      *)
(* validate() runs only when no field failed and raises at its first       *)
(* failing check.                                                          *)
(***************************************************************************)
EXTENDS Naturals, Sequences, FiniteSets

VARIABLES
    listings,   \* Listing table: listing id -> row
    bookings,   \* Booking table: sequence of rows, the index is the booking id
    pc,         \* per request handler: "idle", or the step its request has reached
                \* (booking: "fields_valid", "listing_checked", "validated", "priced";
                \* status update: "status_validated"; listing update: "listing_validated")
    req,        \* per request handler: what its serializer holds between is_valid() and save()
    resp        \* the errors of the booking or status request answered last ({} = accepted)

vars == <<listings, bookings, pc, req, resp>>

----------------------------------------------------------------------------
(* Bounds of the model *)

MaxBookings == 2    \* rows in the Booking table, in SpecSchedule and SpecRace
MaxRows == 1        \* rows in the Booking table, in Spec
MaxDay == 3         \* latest date a request names
MaxGuests == 2      \* largest guest count a request names
MaxStay == 2        \* largest minimum_stay or maximum_stay a listing update names
MaxInFlight == 2    \* requests being served at one time, in SpecListingRace

(* The value of date.today() during the run *)
Today == 0

Days == Today..MaxDay
GuestCounts == 0..MaxGuests
Users == {"alice", "bob"}
Handlers == {"h1", "h2"}
ListingIds == {"L1", "L2", "L3"}
NewListingIds == {"L4"}
ListingHandlers == {"w1", "w2"}
MissingId == "L0"
Notes == {"", "late"}
NoMaxStay == 0
NoRequest == [data |-> << >>, user |-> ""]

Statuses == {"pending", "confirmed", "cancelled", "completed"}

(* Booking.status of a row inserted without a status *)
DefaultStatus == "pending"

----------------------------------------------------------------------------
(* Requests *)

BookingRequests ==
    [listing_id : ListingIds \cup {MissingId},
     check_in_date : Days,
     check_out_date : Days,
     guests : GuestCounts,
     special_requests : {""}]

(* Requests for a listing that is in the table only once it has been created *)
NewListingRequests ==
    [listing_id : NewListingIds,
     check_in_date : Days,
     check_out_date : Days,
     guests : GuestCounts,
     special_requests : {""}]

(* Requests for the listing whose terms change while they are served *)
ListingRaceRequests ==
    {a \in BookingRequests :
        /\ a.listing_id \in {"L2"}
        /\ a.check_in_date = Today + 1
        /\ a.check_out_date > a.check_in_date
        /\ a.guests >= 1}

(* Requests of the handlers that run beside each other: one listing or none *)
RaceRequests ==
    {a \in BookingRequests :
        a.listing_id \in {"L1", MissingId} /\ a.guests \in {0, 1, MaxGuests}}

----------------------------------------------------------------------------
(* BookingCreateSerializer: field validators *)

validate_listing_id(value) ==
    /\ value \in DOMAIN listings
    /\ listings[value].status = "published"
    /\ listings[value].is_available

validate_check_in_date(value) == ~(value <= Today)

validate_check_out_date(value) == ~(value <= Today)

validate_guests(value) == ~(value <= 0)

FieldErrors(attrs) ==
    (IF validate_listing_id(attrs.listing_id) THEN {} ELSE {"InvalidListing"})
    \cup (IF validate_check_in_date(attrs.check_in_date) THEN {} ELSE {"InvalidDate"})
    \cup (IF validate_check_out_date(attrs.check_out_date) THEN {} ELSE {"InvalidDate"})
    \cup (IF validate_guests(attrs.guests) THEN {} ELSE {"InvalidGuests"})

(* timedelta.days of check_out - check_in, used only when check_out > check_in *)
duration(attrs) == attrs.check_out_date - attrs.check_in_date

(* Variant: the overlap query looks at confirmed bookings only *)
overlapping_bookings_confirmed_only(attrs) ==
    {i \in DOMAIN bookings :
        /\ bookings[i].listing = attrs.listing_id
        /\ bookings[i].status \in {"confirmed"}
        /\ bookings[i].check_in_date < attrs.check_out_date
        /\ bookings[i].check_out_date > attrs.check_in_date}

(* Variant: the date comparisons of the overlap query include the boundary days *)
overlapping_bookings_inclusive(attrs) ==
    {i \in DOMAIN bookings :
        /\ bookings[i].listing = attrs.listing_id
        /\ bookings[i].status \in {"confirmed", "pending"}
        /\ bookings[i].check_in_date <= attrs.check_out_date
        /\ bookings[i].check_out_date >= attrs.check_in_date}

(* Variant: the overlap query has no status filter *)
overlapping_bookings_any_status(attrs) ==
    {i \in DOMAIN bookings :
        /\ bookings[i].listing = attrs.listing_id
        /\ bookings[i].check_in_date < attrs.check_out_date
        /\ bookings[i].check_out_date > attrs.check_in_date}

(* Booking.objects.filter(listing=..., status__in=..., check_in_date__lt=..., check_out_date__gt=...) *)
overlapping_bookings(attrs) ==
    {i \in DOMAIN bookings :
        /\ bookings[i].listing = attrs.listing_id
        /\ bookings[i].status \in {"confirmed", "pending"}
        /\ bookings[i].check_in_date < attrs.check_out_date
        /\ bookings[i].check_out_date > attrs.check_in_date}

(* Variant: a request for exactly max_guests guests is refused *)
validate_capacity_exclusive(attrs) ==
    LET listing == listings[attrs.listing_id] IN
    IF attrs.check_out_date <= attrs.check_in_date THEN {"InvalidDateRange"}
    ELSE IF attrs.guests >= listing.max_guests THEN {"CapacityExceeded"}
    ELSE IF duration(attrs) < listing.minimum_stay THEN {"StayDurationInvalid"}
    ELSE IF listing.maximum_stay # NoMaxStay /\ duration(attrs) > listing.maximum_stay
         THEN {"StayDurationInvalid"}
    ELSE IF overlapping_bookings(attrs) # {} THEN {"DateRangeUnavailable"}
    ELSE {}

(* Variant: a stay of exactly minimum_stay nights is refused *)
validate_minimum_exclusive(attrs) ==
    LET listing == listings[attrs.listing_id] IN
    IF attrs.check_out_date <= attrs.check_in_date THEN {"InvalidDateRange"}
    ELSE IF attrs.guests > listing.max_guests THEN {"CapacityExceeded"}
    ELSE IF duration(attrs) <= listing.minimum_stay THEN {"StayDurationInvalid"}
    ELSE IF listing.maximum_stay # NoMaxStay /\ duration(attrs) > listing.maximum_stay
         THEN {"StayDurationInvalid"}
    ELSE IF overlapping_bookings(attrs) # {} THEN {"DateRangeUnavailable"}
    ELSE {}

(* BookingCreateSerializer.validate up to the overlap query: the date order,
   then the checks against the listing read by Listing.objects.get(id=...) *)
validate_against_listing(attrs) ==
    LET listing == listings[attrs.listing_id] IN
    IF attrs.check_out_date <= attrs.check_in_date THEN {"InvalidDateRange"}
    ELSE IF attrs.guests > listing.max_guests THEN {"CapacityExceeded"}
    ELSE IF duration(attrs) < listing.minimum_stay THEN {"StayDurationInvalid"}
    ELSE IF listing.maximum_stay # NoMaxStay /\ duration(attrs) > listing.maximum_stay
         THEN {"StayDurationInvalid"}
    ELSE {}

(* BookingCreateSerializer.validate from the overlap query on *)
validate_availability(attrs) ==
    IF overlapping_bookings(attrs) # {} THEN {"DateRangeUnavailable"} ELSE {}

(* BookingCreateSerializer.validate: the first failing check, or {} *)
validate(attrs) ==
    LET listing == listings[attrs.listing_id] IN
    IF attrs.check_out_date <= attrs.check_in_date THEN {"InvalidDateRange"}
    ELSE IF attrs.guests > listing.max_guests THEN {"CapacityExceeded"}
    ELSE IF duration(attrs) < listing.minimum_stay THEN {"StayDurationInvalid"}
    ELSE IF listing.maximum_stay # NoMaxStay /\ duration(attrs) > listing.maximum_stay
         THEN {"StayDurationInvalid"}
    ELSE IF overlapping_bookings(attrs) # {} THEN {"DateRangeUnavailable"}
    ELSE {}

(* Variant: validation stops at the first field that fails *)
ValidationErrors_first_field_only(attrs) ==
    IF ~validate_listing_id(attrs.listing_id) THEN {"InvalidListing"}
    ELSE IF ~validate_check_in_date(attrs.check_in_date) THEN {"InvalidDate"}
    ELSE IF ~validate_check_out_date(attrs.check_out_date) THEN {"InvalidDate"}
    ELSE IF ~validate_guests(attrs.guests) THEN {"InvalidGuests"}
    ELSE validate(attrs)

(* is_valid(): field validators first, validate() only when none failed *)
ValidationErrors(attrs) ==
    LET errors == FieldErrors(attrs) IN
    IF errors # {} THEN errors ELSE validate(attrs)

(* Variant: the total price is the nightly price, the nights are not counted *)
create_one_night_price(validated_data, user) ==
    LET listing == listings[validated_data.listing_id] IN
    [listing |-> validated_data.listing_id,
     user |-> user,
     check_in_date |-> validated_data.check_in_date,
     check_out_date |-> validated_data.check_out_date,
     guests |-> validated_data.guests,
     special_requests |-> validated_data.special_requests,
     total_price |-> listing.price_per_night,
     status |-> DefaultStatus]

(* Variant: the booking is given to a fixed account instead of the requester *)
create_for_fixed_user(validated_data, user) ==
    LET listing == listings[validated_data.listing_id] IN
    [listing |-> validated_data.listing_id,
     user |-> "alice",
     check_in_date |-> validated_data.check_in_date,
     check_out_date |-> validated_data.check_out_date,
     guests |-> validated_data.guests,
     special_requests |-> validated_data.special_requests,
     total_price |-> listing.price_per_night * duration(validated_data),
     status |-> DefaultStatus]

(* BookingCreateSerializer.create: the row inserted *)
create(validated_data, user) ==
    LET listing == listings[validated_data.listing_id] IN
    [listing |-> validated_data.listing_id,
     user |-> user,
     check_in_date |-> validated_data.check_in_date,
     check_out_date |-> validated_data.check_out_date,
     guests |-> validated_data.guests,
     special_requests |-> validated_data.special_requests,
     total_price |-> listing.price_per_night * duration(validated_data),
     status |-> DefaultStatus]

----------------------------------------------------------------------------
(* BookingUpdateSerializer *)

(* Variant: a cancelled booking may be confirmed again *)
allowed_transitions_reopen(current_status) ==
    CASE current_status = "pending" -> {"confirmed", "cancelled"}
      [] current_status = "confirmed" -> {"completed", "cancelled"}
      [] current_status = "cancelled" -> {"confirmed"}
      [] current_status = "completed" -> {}
      [] OTHER -> {}

(* Variant: a confirmed booking may be put back to pending *)
allowed_transitions_back(current_status) ==
    CASE current_status = "pending" -> {"confirmed", "cancelled"}
      [] current_status = "confirmed" -> {"completed", "cancelled", "pending"}
      [] current_status = "cancelled" -> {}
      [] current_status = "completed" -> {}
      [] OTHER -> {}

allowed_transitions(current_status) ==
    CASE current_status = "pending" -> {"confirmed", "cancelled"}
      [] current_status = "confirmed" -> {"completed", "cancelled"}
      [] current_status = "cancelled" -> {}
      [] current_status = "completed" -> {}
      [] OTHER -> {}

validate_status(current_status, value) == value \in allowed_transitions(current_status)

(* The text of the ValidationError validate_status raises, piece by piece *)
validate_status_message(current_status, value) ==
    <<"Cannot change status from ", current_status, " to ", value, ".">>

(* Variant: every update also recomputes the total from the listing's current price *)
booking_update_repriced(instance, validated_data) ==
    [instance EXCEPT
        !.status = IF "status" \in DOMAIN validated_data
                   THEN validated_data.status ELSE @,
        !.special_requests = IF "special_requests" \in DOMAIN validated_data
                             THEN validated_data.special_requests ELSE @,
        !.total_price = listings[instance.listing].price_per_night
                        * (instance.check_out_date - instance.check_in_date)]

(* BookingUpdateSerializer.update: only the fields of Meta.fields are written *)
booking_update(instance, validated_data) ==
    [instance EXCEPT
        !.status = IF "status" \in DOMAIN validated_data
                   THEN validated_data.status ELSE @,
        !.special_requests = IF "special_requests" \in DOMAIN validated_data
                             THEN validated_data.special_requests ELSE @]

----------------------------------------------------------------------------
(* ListingCreateUpdateSerializer *)

(* The listing updates a run draws from: the host of L2 changes its nightly price *)
UpdatedListings == {"L2"}
ListingPayloads == [price_per_night : {0, 4}]

(* Updates of the stay bounds of a listing, one bound or both; a maximum_stay
   of NoMaxStay removes the upper bound *)
StayPayloads ==
    [minimum_stay : 1..MaxStay]
    \cup [maximum_stay : NoMaxStay..MaxStay]
    \cup [minimum_stay : 1..MaxStay, maximum_stay : NoMaxStay..MaxStay]

(* Updates of one of the fields a booking request is validated against or
   priced with *)
ListingTermsPayloads ==
    [status : {"draft"}]
    \cup [max_guests : {MaxGuests}]
    \cup [minimum_stay : {1}]
    \cup [price_per_night : {4}]

(* Listings submitted for creation through ListingCreateUpdateSerializer *)
ListingCreatePayloads ==
    [status : {"published"}, is_available : {TRUE}, max_guests : {0, MaxGuests},
     minimum_stay : {MaxStay}, maximum_stay : {NoMaxStay, 1}, price_per_night : {4}]

(* Listings submitted for creation through ListingSerializer *)
ListingSerializerPayloads ==
    [status : {"published"}, is_available : {TRUE}, max_guests : {MaxGuests},
     minimum_stay : {MaxStay}, maximum_stay : {NoMaxStay, 1}, price_per_night : {0},
     bedrooms : {0, 1}]

validate_price_per_night(value) == ~(value <= 0)

validate_max_guests(value) == ~(value <= 0)

(* Python truthiness of attrs.get(name): absent, None and 0 are all false *)
Truthy(attrs, name) == name \in DOMAIN attrs /\ attrs[name] # 0

ListingFieldErrors(attrs) ==
    (IF "price_per_night" \in DOMAIN attrs /\ ~validate_price_per_night(attrs.price_per_night)
        THEN {"InvalidPrice"} ELSE {})
    \cup (IF "max_guests" \in DOMAIN attrs /\ ~validate_max_guests(attrs.max_guests)
        THEN {"InvalidMaxGuests"} ELSE {})

(* ListingCreateUpdateSerializer.validate *)
listing_validate(attrs) ==
    IF Truthy(attrs, "maximum_stay") /\ Truthy(attrs, "minimum_stay")
       /\ attrs.maximum_stay < attrs.minimum_stay
    THEN {"InvalidStayBounds"} ELSE {}

ListingValidationErrors(attrs) ==
    IF ListingFieldErrors(attrs) # {} THEN ListingFieldErrors(attrs) ELSE listing_validate(attrs)

(* ListingCreateUpdateSerializer.update: every submitted field is written to the row *)
listing_update(instance, validated_data) ==
    [f \in DOMAIN instance |->
        IF f \in DOMAIN validated_data THEN validated_data[f] ELSE instance[f]]

(* ListingSerializer: Meta.extra_kwargs min_value of the fields *)
ListingSerializerFieldErrors(data) ==
    (IF "price_per_night" \in DOMAIN data /\ data.price_per_night < 0
        THEN {"InvalidPrice"} ELSE {})
    \cup (IF "max_guests" \in DOMAIN data /\ data.max_guests < 1
        THEN {"InvalidMaxGuests"} ELSE {})
    \cup (IF "minimum_stay" \in DOMAIN data /\ data.minimum_stay < 1
        THEN {"InvalidMinimumStay"} ELSE {})

(* data.get(name, default) *)
DataGet(data, name, default) == IF name \in DOMAIN data THEN data[name] ELSE default

(* ListingSerializer.validate *)
listing_serializer_validate(data) ==
    LET minimum_stay == DataGet(data, "minimum_stay", 1)
        maximum_stay == DataGet(data, "maximum_stay", NoMaxStay)
        max_guests == DataGet(data, "max_guests", 1)
        bedrooms == DataGet(data, "bedrooms", 1)
    IN  IF maximum_stay # NoMaxStay /\ minimum_stay > maximum_stay THEN {"InvalidStayBounds"}
        ELSE IF max_guests > bedrooms * 4 THEN {"TooManyGuests"}
        ELSE {}

ListingSerializerErrors(data) ==
    IF ListingSerializerFieldErrors(data) # {}
    THEN ListingSerializerFieldErrors(data) ELSE listing_serializer_validate(data)

(* The Listing table with the row of a new listing added *)
listing_insert(id, row) ==
    [l \in DOMAIN listings \cup {id} |-> IF l = id THEN row ELSE listings[l]]

----------------------------------------------------------------------------
Init ==
    /\ listings =
         [l \in ListingIds |->
            CASE l = "L1" -> [status |-> "published", is_available |-> TRUE, max_guests |-> 1,
                              minimum_stay |-> 1, maximum_stay |-> NoMaxStay, price_per_night |-> 3]
              [] l = "L2" -> [status |-> "published", is_available |-> TRUE, max_guests |-> 1,
                              minimum_stay |-> 2, maximum_stay |-> 2, price_per_night |-> 5]
              [] OTHER -> [status |-> "draft", is_available |-> TRUE, max_guests |-> 2,
                              minimum_stay |-> 1, maximum_stay |-> NoMaxStay, price_per_night |-> 4]]
    /\ bookings = << >>
    /\ pc = [h \in Handlers \cup ListingHandlers |-> "idle"]
    /\ req = [h \in Handlers \cup ListingHandlers |-> NoRequest]
    /\ resp = {}

(* One booking request handled to completion: is_valid() then save() *)
BookingRequest(user, attrs) ==
    /\ resp' = ValidationErrors(attrs)
    /\ bookings' = IF ValidationErrors(attrs) = {}
                   THEN Append(bookings, create(attrs, user))
                   ELSE bookings
    /\ UNCHANGED <<listings, pc, req>>

(* Variant: the note of a refused status update is written all the same *)
StatusRequest_note_written(i, data) ==
    /\ i \in DOMAIN bookings
    /\ IF "status" \in DOMAIN data /\ ~validate_status(bookings[i].status, data.status)
       THEN /\ resp' = {"IllegalTransition"}
            /\ bookings' = [bookings EXCEPT ![i] =
                    booking_update(bookings[i], [f \in DOMAIN data \ {"status"} |-> data[f]])]
       ELSE /\ resp' = {}
            /\ bookings' = [bookings EXCEPT ![i] = booking_update(bookings[i], data)]
    /\ UNCHANGED <<listings, pc, req>>

(* One status update handled to completion *)
StatusRequest(i, data) ==
    /\ i \in DOMAIN bookings
    /\ IF "status" \in DOMAIN data /\ ~validate_status(bookings[i].status, data.status)
       THEN /\ resp' = {"IllegalTransition"}
            /\ UNCHANGED bookings
       ELSE /\ resp' = {}
            /\ bookings' = [bookings EXCEPT ![i] = booking_update(bookings[i], data)]
    /\ UNCHANGED <<listings, pc, req>>

(* One listing update handled to completion *)
ListingUpdate(l, data) ==
    /\ l \in DOMAIN listings
    /\ listings' = IF ListingValidationErrors(data) = {}
                   THEN [listings EXCEPT ![l] = listing_update(listings[l], data)]
                   ELSE listings
    /\ UNCHANGED <<bookings, pc, req, resp>>

(* is_valid() of a listing update served by handler h: the serializer holds
   the instance loaded from the row of listing l; save() follows in ListingSave *)
ListingValidate(h, l, data) ==
    /\ pc[h] = "idle"
    /\ l \in DOMAIN listings
    /\ IF ListingValidationErrors(data) = {}
       THEN /\ pc' = [pc EXCEPT ![h] = "listing_validated"]
            /\ req' = [req EXCEPT ![h] = [data |-> data, id |-> l, instance |-> listings[l]]]
       ELSE UNCHANGED <<pc, req>>
    /\ UNCHANGED <<listings, bookings, resp>>

(* save() of the listing update handler h validated earlier: update() sets
   the submitted fields on the loaded instance and writes the instance to its row *)
ListingSave(h) ==
    /\ pc[h] = "listing_validated"
    /\ listings' = [listings EXCEPT ![req[h].id] = listing_update(req[h].instance, req[h].data)]
    /\ pc' = [pc EXCEPT ![h] = "idle"]
    /\ req' = [req EXCEPT ![h] = NoRequest]
    /\ UNCHANGED <<bookings, resp>>

(* A listing created through ListingCreateUpdateSerializer: is_valid() then
   create(), which inserts the validated data as a new row *)
ListingCreate(id, data) ==
    /\ id \notin DOMAIN listings
    /\ listings' = IF ListingValidationErrors(data) = {}
                   THEN listing_insert(id, data)
                   ELSE listings
    /\ UNCHANGED <<bookings, pc, req, resp>>

(* A listing created through ListingSerializer: is_valid() then create() *)
ListingSerializerCreate(id, data) ==
    /\ id \notin DOMAIN listings
    /\ listings' = IF ListingSerializerErrors(data) = {}
                   THEN listing_insert(id, data)
                   ELSE listings
    /\ UNCHANGED <<bookings, pc, req, resp>>

(* A booking request served by handler h takes five steps, one for each read
   or write of the tables; requests of other handlers may be served between
   any two of them.

   Step 1, is_valid(): the field validators; validate_listing_id reads the
   listing with its status and is_available *)
ValidateFields(h, user, attrs) ==
    /\ pc[h] = "idle"
    /\ IF FieldErrors(attrs) = {}
       THEN /\ pc' = [pc EXCEPT ![h] = "fields_valid"]
            /\ req' = [req EXCEPT ![h] = [data |-> attrs, user |-> user]]
            /\ UNCHANGED resp
       ELSE /\ resp' = FieldErrors(attrs)
            /\ UNCHANGED <<pc, req>>
    /\ UNCHANGED <<listings, bookings>>

(* Step 2, is_valid(): validate() checks the date order, reads the listing
   again, by id only, and checks capacity and stay bounds against it *)
ValidateListing(h) ==
    /\ pc[h] = "fields_valid"
    /\ IF validate_against_listing(req[h].data) = {}
       THEN /\ pc' = [pc EXCEPT ![h] = "listing_checked"]
            /\ UNCHANGED <<req, resp>>
       ELSE /\ resp' = validate_against_listing(req[h].data)
            /\ pc' = [pc EXCEPT ![h] = "idle"]
            /\ req' = [req EXCEPT ![h] = NoRequest]
    /\ UNCHANGED <<listings, bookings>>

(* Variant: the row is written before the overlap query and stays when the
   dates are taken *)
ValidateAvailability_row_written_first(h) ==
    /\ pc[h] = "listing_checked"
    /\ IF validate_availability(req[h].data) = {}
       THEN /\ pc' = [pc EXCEPT ![h] = "validated"]
            /\ UNCHANGED <<req, resp, bookings>>
       ELSE /\ resp' = validate_availability(req[h].data)
            /\ pc' = [pc EXCEPT ![h] = "idle"]
            /\ req' = [req EXCEPT ![h] = NoRequest]
            /\ bookings' = Append(bookings, create(req[h].data, req[h].user))
    /\ UNCHANGED listings

(* Step 3, is_valid(): validate() runs the overlap query *)
ValidateAvailability(h) ==
    /\ pc[h] = "listing_checked"
    /\ IF validate_availability(req[h].data) = {}
       THEN /\ pc' = [pc EXCEPT ![h] = "validated"]
            /\ UNCHANGED <<req, resp>>
       ELSE /\ resp' = validate_availability(req[h].data)
            /\ pc' = [pc EXCEPT ![h] = "idle"]
            /\ req' = [req EXCEPT ![h] = NoRequest]
    /\ UNCHANGED <<listings, bookings>>

(* Step 4, save(): create() reads the listing by id and computes the row,
   total_price from the nightly price it has just read *)
CreateRead(h) ==
    /\ pc[h] = "validated"
    /\ pc' = [pc EXCEPT ![h] = "priced"]
    /\ req' = [req EXCEPT ![h] =
                  [data |-> req[h].data, user |-> req[h].user,
                   row |-> create(req[h].data, req[h].user)]]
    /\ UNCHANGED <<listings, bookings, resp>>

(* Variant: the insert runs the overlap query again and refuses when the dates are taken *)
CreateInsertRechecked(h) ==
    /\ pc[h] = "priced"
    /\ IF overlapping_bookings(req[h].data) = {}
       THEN /\ bookings' = Append(bookings, req[h].row)
            /\ resp' = {}
       ELSE /\ resp' = {"DateRangeUnavailable"}
            /\ UNCHANGED bookings
    /\ pc' = [pc EXCEPT ![h] = "idle"]
    /\ req' = [req EXCEPT ![h] = NoRequest]
    /\ UNCHANGED listings

(* Step 5, save(): create() inserts the row it computed *)
CreateInsert(h) ==
    /\ pc[h] = "priced"
    /\ bookings' = Append(bookings, req[h].row)
    /\ pc' = [pc EXCEPT ![h] = "idle"]
    /\ req' = [req EXCEPT ![h] = NoRequest]
    /\ resp' = {}
    /\ UNCHANGED listings

(* is_valid() of a status update served by handler h: the serializer holds
   the instance loaded from row i and validates against its status; save()
   follows in StatusSave *)
StatusValidate(h, i, data) ==
    /\ pc[h] = "idle"
    /\ i \in DOMAIN bookings
    /\ IF "status" \in DOMAIN data /\ ~validate_status(bookings[i].status, data.status)
       THEN /\ resp' = {"IllegalTransition"}
            /\ UNCHANGED <<pc, req>>
       ELSE /\ pc' = [pc EXCEPT ![h] = "status_validated"]
            /\ req' = [req EXCEPT ![h] = [data |-> data, id |-> i, instance |-> bookings[i]]]
            /\ UNCHANGED resp
    /\ UNCHANGED <<listings, bookings>>

(* save() of the status update handler h validated earlier: update() sets the
   validated fields on the loaded instance and writes the instance to its row *)
StatusSave(h) ==
    /\ pc[h] = "status_validated"
    /\ bookings' = [bookings EXCEPT ![req[h].id] = booking_update(req[h].instance, req[h].data)]
    /\ pc' = [pc EXCEPT ![h] = "idle"]
    /\ req' = [req EXCEPT ![h] = NoRequest]
    /\ resp' = {}
    /\ UNCHANGED listings

StatusPayloads ==
    [status : Statuses] \cup [special_requests : Notes] \cup [status : Statuses, special_requests : Notes]

(* Rows in the table plus booking requests being served, each of which may insert one *)
BookingSteps == {"fields_valid", "listing_checked", "validated", "priced"}

RowsClaimed == Len(bookings) + Cardinality({h \in Handlers : pc[h] \in BookingSteps})

(* Requests a handler has begun to serve and not yet answered *)
InFlight == Cardinality({h \in Handlers \cup ListingHandlers : pc[h] # "idle"})

(* Requests handled one at a time, each to completion: booking requests of
   any user, status updates with or without a note, price updates of L2 *)
Next ==
    \/ \E u \in Users, a \in BookingRequests :
          RowsClaimed < MaxRows /\ BookingRequest(u, a)
    \/ \E i \in 1..MaxRows, d \in StatusPayloads : StatusRequest(i, d)
    \/ \E l \in UpdatedListings, d \in ListingPayloads : ListingUpdate(l, d)

Spec == Init /\ [][Next]_vars

(* Requests handled one at a time, each to completion: the booking requests
   of one user and the status updates that decide which dates are taken *)
NextSchedule ==
    \/ \E u \in {"alice"}, a \in BookingRequests :
          RowsClaimed < MaxBookings /\ BookingRequest(u, a)
    \/ \E i \in 1..MaxBookings, d \in [status : Statuses] : StatusRequest(i, d)

SpecSchedule == Init /\ [][NextSchedule]_vars

(* Booking requests served by concurrent handlers: another request may run
   between a handler's is_valid() and its save() *)
NextRace ==
    \/ \E h \in Handlers, u \in {"alice"}, a \in RaceRequests :
          RowsClaimed < MaxBookings /\ ValidateFields(h, u, a)
    \/ \E h \in Handlers : ValidateListing(h)
    \/ \E h \in Handlers : ValidateAvailability(h)
    \/ \E h \in Handlers : CreateRead(h)
    \/ \E h \in Handlers : CreateInsert(h)

SpecRace == Init /\ [][NextRace]_vars

(* Requests handled one at a time, each to completion: hosts create a
   listing and change the stay bounds of another between the booking
   requests for the two *)
NextListing ==
    \/ \E u \in {"alice"}, a \in BookingRequests \cup NewListingRequests :
          /\ a.listing_id \in UpdatedListings \cup NewListingIds
          /\ RowsClaimed < MaxBookings
          /\ BookingRequest(u, a)
    \/ \E l \in UpdatedListings, d \in StayPayloads : ListingUpdate(l, d)
    \/ \E l \in NewListingIds, d \in ListingCreatePayloads : ListingCreate(l, d)
    \/ \E l \in NewListingIds, d \in ListingSerializerPayloads : ListingSerializerCreate(l, d)

SpecListing == Init /\ [][NextListing]_vars

(* Listing updates served by concurrent handlers while a booking request for
   the listing is between two of its steps *)
NextListingRace ==
    \/ \E h \in Handlers, u \in {"alice"}, a \in ListingRaceRequests :
          /\ RowsClaimed < MaxRows
          /\ InFlight < MaxInFlight
          /\ ValidateFields(h, u, a)
    \/ \E h \in Handlers : ValidateListing(h)
    \/ \E h \in Handlers : ValidateAvailability(h)
    \/ \E h \in Handlers : CreateRead(h)
    \/ \E h \in Handlers : CreateInsert(h)
    \/ \E h \in ListingHandlers, l \in UpdatedListings, d \in ListingTermsPayloads :
          InFlight < MaxInFlight /\ ListingValidate(h, l, d)
    \/ \E h \in ListingHandlers : ListingSave(h)

SpecListingRace == Init /\ [][NextListingRace]_vars

(* The booking the concurrent status updates are about: one night on L1 *)
FirstNightRequests ==
    {a \in BookingRequests :
        /\ a.listing_id = "L1"
        /\ a.check_in_date = Today + 1
        /\ duration(a) = 1
        /\ a.guests = 1}

(* Status updates served by concurrent handlers: another update of the same
   booking may be saved between a handler's is_valid() and its save() *)
NextStatusRace ==
    \/ \E u \in {"alice"}, a \in FirstNightRequests :
          RowsClaimed < MaxRows /\ BookingRequest(u, a)
    \/ \E h \in Handlers, i \in 1..MaxRows, d \in StatusPayloads : StatusValidate(h, i, d)
    \/ \E h \in Handlers : StatusSave(h)

SpecStatusRace == Init /\ [][NextStatusRace]_vars

----------------------------------------------------------------------------
(* Vocabulary of the properties *)

Active(b) == b.status \in {"pending", "confirmed"}

Nights(b) == b.check_out_date - b.check_in_date

RangesOverlap(a, b) ==
    a.check_in_date < b.check_out_date /\ a.check_out_date > b.check_in_date

(* The admission rules, as the specification words them, for a request a *)
ListingBookable(a) ==
    /\ a.listing_id \in DOMAIN listings
    /\ listings[a.listing_id].status = "published"
    /\ listings[a.listing_id].is_available = TRUE

DatesInFuture(a) == a.check_in_date > Today /\ a.check_out_date > Today

RangeOrdered(a) == a.check_out_date > a.check_in_date

WithinCapacity(a) == a.guests <= listings[a.listing_id].max_guests

StayWithinBounds(a) ==
    /\ Nights(a) >= listings[a.listing_id].minimum_stay
    /\ listings[a.listing_id].maximum_stay # NoMaxStay
          => Nights(a) <= listings[a.listing_id].maximum_stay

PassesRules1To5(a) ==
    /\ ListingBookable(a)
    /\ DatesInFuture(a)
    /\ RangeOrdered(a)
    /\ WithinCapacity(a)
    /\ StayWithinBounds(a)

(* Rule 6 fails: an active booking of the same listing overlaps the request *)
BlockedByActiveBooking(a) ==
    \E i \in DOMAIN bookings :
        /\ bookings[i].listing = a.listing_id
        /\ bookings[i].status \in {"pending", "confirmed"}
        /\ bookings[i].check_in_date < a.check_out_date
        /\ bookings[i].check_out_date > a.check_in_date

(* The two ranges have a night in common *)
SharesNight(a, b) ==
    \E d \in Days :
        /\ a.check_in_date <= d /\ d < a.check_out_date
        /\ b.check_in_date <= d /\ d < b.check_out_date

(* Request a is one the response held in resp refuses: a refused request
   changes nothing but resp, so the request refused last is among these *)
RefusedLast(a) == resp # {} /\ ValidationErrors(a) = resp

(* The request a row of the Booking table was created from *)
RequestOf(b) ==
    [listing_id |-> b.listing,
     check_in_date |-> b.check_in_date,
     check_out_date |-> b.check_out_date,
     guests |-> b.guests,
     special_requests |-> b.special_requests]

ActiveOn(l) == {i \in DOMAIN bookings : bookings[i].listing = l /\ Active(bookings[i])}

PermittedTransitions ==
    {<<"pending", "confirmed">>, <<"pending", "cancelled">>,
     <<"confirmed", "completed">>, <<"confirmed", "cancelled">>}

----------------------------------------------------------------------------
(* C1: with requests handled one at a time, no two distinct bookings of the
   same listing that are both pending or confirmed have overlapping date
   ranges (a.check_in < b.check_out and a.check_out > b.check_in). *)
NoActiveOverlap ==
    \A i, j \in DOMAIN bookings :
        (i # j /\ bookings[i].listing = bookings[j].listing
              /\ Active(bookings[i]) /\ Active(bookings[j]))
        => ~RangesOverlap(bookings[i], bookings[j])

(* Two active bookings share a listing, the second admitted next to the first *)
TwoActiveOnOneListing ==
    \E i, j \in DOMAIN bookings :
        /\ i # j
        /\ bookings[i].listing = bookings[j].listing
        /\ Active(bookings[i]) /\ Active(bookings[j])

(* C2: a booking request that passed its overlap check is inserted by its
   save step even when another request has taken overlapping dates of the
   same listing in between: the save step checks nothing again, so two
   requests that both validated before either saved are both admitted. *)
ValidatedRequestAlwaysInserted ==
    [][\A h \in Handlers :
          (pc[h] = "priced" /\ pc'[h] = "idle" /\ overlapping_bookings(req[h].data) # {})
          => /\ Len(bookings') = Len(bookings) + 1
             /\ bookings'[Len(bookings')].listing = req[h].data.listing_id
             /\ bookings'[Len(bookings')].check_in_date = req[h].data.check_in_date
             /\ bookings'[Len(bookings')].check_out_date = req[h].data.check_out_date
             /\ bookings'[Len(bookings')].status = "pending"
             /\ resp' = {}]_vars

(* Double booking: two pending bookings of one listing with overlapping ranges *)
DoubleBooked ==
    \E i, j \in DOMAIN bookings :
        /\ i # j
        /\ bookings[i].listing = bookings[j].listing
        /\ bookings[i].status = "pending" /\ bookings[j].status = "pending"
        /\ RangesOverlap(bookings[i], bookings[j])

(* Every status request step accepts exactly the permitted pairs *)
StatusRequestsExactlyPermitted ==
    [][(resp' \subseteq {"IllegalTransition"} /\ Len(bookings') = Len(bookings)) =>
        \A i \in DOMAIN bookings, t \in Statuses :
          \A d \in {[status |-> t]} \cup {[status |-> t, special_requests |-> n] : n \in Notes} :
            StatusRequest(i, d)
            => IF <<bookings[i].status, t>> \in PermittedTransitions
               THEN resp' = {} /\ bookings'[i].status = t
               ELSE resp' = {"IllegalTransition"} /\ bookings' = bookings]_vars

(* A stored status the table of transitions does not know allows no target *)
UnknownStatusAllowsNothing ==
    \A t \in Statuses \cup {"refunded"} : ~validate_status("refunded", t)

(* C3: a status request on a booking with stored status s asking for status
   t is accepted, and writes t, exactly when (s, t) is one of
   pending->confirmed, pending->cancelled, confirmed->completed,
   confirmed->cancelled; every other pair, t = s included, is refused with
   IllegalTransition and writes nothing; a stored status outside the four
   known ones allows no target at all. *)
TransitionsExactlyPermitted ==
    UnknownStatusAllowsNothing /\ StatusRequestsExactlyPermitted

(* A request was refused while some booking had already been completed *)
RefusedAfterCompleted ==
    /\ resp = {"IllegalTransition"}
    /\ \E i \in DOMAIN bookings : bookings[i].status = "completed"

(* C4: cancelled and completed are terminal, no step changes the status of a
   booking stored as cancelled or completed; and a booking that has left
   pending never becomes pending again. *)
TerminalStatusesStay ==
    [][\A i \in DOMAIN bookings :
          /\ bookings[i].status \in {"cancelled", "completed"}
                => bookings'[i].status = bookings[i].status
          /\ bookings[i].status # "pending" => bookings'[i].status # "pending"]_vars

(* A cancelled booking was asked to change and the request was refused *)
RefusedOnCancelled ==
    /\ resp = {"IllegalTransition"}
    /\ \E i \in DOMAIN bookings : bookings[i].status = "cancelled"
    /\ \A i \in DOMAIN bookings : bookings[i].status \in {"cancelled", "completed"}

(* C5: every booking a request creates has total_price equal to the
   listing's nightly price times its nights, nights being check_out minus
   check_in in days and at least 1. *)
CreatedPriceIsNightlyTimesNights ==
    [][Len(bookings') > Len(bookings) =>
        LET b == bookings'[Len(bookings')] IN
        /\ Len(bookings') = Len(bookings) + 1
        /\ Nights(b) >= 1
        /\ b.total_price = listings[b.listing].price_per_night * Nights(b)]_vars

(* A two-night booking priced at twice the nightly price is in the table *)
TwoNightBookingPriced ==
    \E i \in DOMAIN bookings :
        /\ Nights(bookings[i]) = 2
        /\ bookings[i].total_price = 2 * listings[bookings[i].listing].price_per_night

(* C6: after its creation a booking's total_price, check-in, check-out,
   guests, listing and owner are changed by no step: not by a status
   update, which writes status and special_requests only, and not by an
   update of the listing's nightly price. *)
BookingTermsFrozen ==
    [][\A i \in DOMAIN bookings :
          /\ i \in DOMAIN bookings'
          /\ bookings'[i].total_price = bookings[i].total_price
          /\ bookings'[i].check_in_date = bookings[i].check_in_date
          /\ bookings'[i].check_out_date = bookings[i].check_out_date
          /\ bookings'[i].guests = bookings[i].guests
          /\ bookings'[i].listing = bookings[i].listing
          /\ bookings'[i].user = bookings[i].user]_vars

(* A booking that was later confirmed and annotated keeps the total of the
   price in force at its creation although the listing's price has changed *)
OldPriceKeptAfterUpdates ==
    \E i \in DOMAIN bookings :
        /\ bookings[i].status = "confirmed"
        /\ bookings[i].special_requests = "late"
        /\ bookings[i].total_price # listings[bookings[i].listing].price_per_night * Nights(bookings[i])

(* C9: a booking a request creates is stored as pending and is owned by the
   user who made the request, by no other user. *)
CreatedPendingForRequester ==
    [][Len(bookings') > Len(bookings) =>
        \A u \in Users :
            BookingRequest(u, RequestOf(bookings'[Len(bookings')]))
            => /\ bookings'[Len(bookings')].status = "pending"
               /\ bookings'[Len(bookings')].user = u
               /\ \A v \in Users \ {u} : bookings'[Len(bookings')].user # v]_vars

(* The request of the second user was admitted: the newest booking is
   pending and is theirs *)
SecondUserOwnsPending ==
    /\ Len(bookings) >= 1
    /\ bookings[Len(bookings)].user = "bob"
    /\ bookings[Len(bookings)].status = "pending"
    /\ resp = {}

(* C7: a request that passes every other check is admitted when it only
   touches the active bookings of its listing, checking in on the day one
   of them checks out or checking out on the day one of them checks in;
   it fails with DateRangeUnavailable when it shares at least one night
   with an active booking of its listing. *)
BackToBackAdmitted ==
    \A a \in BookingRequests :
        (PassesRules1To5(a) /\ a.guests >= 1)
        => /\ (\E i \in ActiveOn(a.listing_id) : SharesNight(bookings[i], a))
                => ValidationErrors(a) = {"DateRangeUnavailable"}
           /\ ((\E i \in ActiveOn(a.listing_id) :
                    \/ bookings[i].check_out_date = a.check_in_date
                    \/ bookings[i].check_in_date = a.check_out_date)
               /\ (\A i \in ActiveOn(a.listing_id) : ~SharesNight(bookings[i], a)))
                => ValidationErrors(a) = {}

(* Booking 2 was admitted checking in on the day the active booking 1 checks out *)
BackToBackPair ==
    /\ Len(bookings) = 2
    /\ bookings[1].listing = bookings[2].listing
    /\ Active(bookings[1]) /\ bookings[2].status = "pending"
    /\ bookings[1].check_out_date = bookings[2].check_in_date
    /\ resp = {}

(* The first violated rule of the specification's sequence *)
FirstViolatedRule(a) ==
    IF ~ListingBookable(a) THEN "InvalidListing"
    ELSE IF ~DatesInFuture(a) THEN "InvalidDate"
    ELSE IF ~RangeOrdered(a) THEN "InvalidDateRange"
    ELSE IF ~WithinCapacity(a) THEN "CapacityExceeded"
    ELSE IF ~StayWithinBounds(a) THEN "StayDurationInvalid"
    ELSE IF BlockedByActiveBooking(a) THEN "DateRangeUnavailable"
    ELSE "none"

(* C8 as stated: whatever rules a refused request violates, the one error
   reported is that of the first violated rule in the order InvalidListing,
   InvalidDate, InvalidDateRange, CapacityExceeded, StayDurationInvalid,
   DateRangeUnavailable, and no later rule is reported. *)
FailsFastOnFirstRule ==
    \A a \in BookingRequests :
        (RefusedLast(a) /\ a.guests >= 1 /\ FirstViolatedRule(a) # "none")
        => resp = {FirstViolatedRule(a)}

(* The errors the per-field rules give for a request, all of them together *)
FieldRuleErrors(a) ==
    (IF ListingBookable(a) THEN {} ELSE {"InvalidListing"})
    \cup (IF DatesInFuture(a) THEN {} ELSE {"InvalidDate"})
    \cup (IF a.guests >= 1 THEN {} ELSE {"InvalidGuests"})

FirstCrossFieldError(a) ==
    IF ~RangeOrdered(a) THEN {"InvalidDateRange"}
    ELSE IF ~WithinCapacity(a) THEN {"CapacityExceeded"}
    ELSE IF ~StayWithinBounds(a) THEN {"StayDurationInvalid"}
    ELSE IF BlockedByActiveBooking(a) THEN {"DateRangeUnavailable"}
    ELSE {}

(* C8, amended: the per-field rules (listing bookable, check-in in the
   future, check-out in the future, at least one guest) are all evaluated
   and every error among them is reported together; only when none of them
   fails are the cross-field rules evaluated, and these fail fast in the
   order InvalidDateRange, CapacityExceeded, StayDurationInvalid,
   DateRangeUnavailable, reporting the first violated one alone. *)
FieldErrorsTogetherThenFailFast ==
    /\ \A a \in BookingRequests :
          LET together == FieldRuleErrors(a) IN
          ValidationErrors(a) = IF together # {} THEN together ELSE FirstCrossFieldError(a)
    /\ Cardinality(resp) > 1 => resp \subseteq {"InvalidListing", "InvalidDate", "InvalidGuests"}

(* A request naming an unbookable listing and a date not in the future was
   refused with both errors *)
TwoFieldErrorsReported == resp = {"InvalidListing", "InvalidDate"}

(* C10 as stated: a request that passes rules 1-5 fails with
   DateRangeUnavailable exactly when an existing pending or confirmed
   booking of the same listing overlaps it. *)
UnavailableIffActiveOverlap ==
    \A a \in BookingRequests :
        (RefusedLast(a) /\ PassesRules1To5(a))
        => (resp = {"DateRangeUnavailable"} <=> BlockedByActiveBooking(a))

(* C10, amended: a request that passes rules 1-5 and asks for at least one
   guest fails with DateRangeUnavailable exactly when an existing pending
   or confirmed booking of the same listing overlaps it, and is admitted
   otherwise; cancelled and completed bookings and bookings of other
   listings never block it. *)
UnavailableIffActiveOverlapForGuests ==
    \A a \in BookingRequests :
        (PassesRules1To5(a) /\ a.guests >= 1)
        => /\ ValidationErrors(a) = {"DateRangeUnavailable"} <=> BlockedByActiveBooking(a)
           /\ ValidationErrors(a) = {} <=> ~BlockedByActiveBooking(a)

(* The dates of a cancelled or completed booking were booked again *)
RebookedAfterRelease ==
    /\ Len(bookings) = 2
    /\ bookings[1].listing = bookings[2].listing
    /\ bookings[1].status \in {"cancelled", "completed"}
    /\ bookings[2].status = "pending"
    /\ RangesOverlap(bookings[1], bookings[2])
    /\ resp = {}

----------------------------------------------------------------------------
(* The stay-duration rule as the specification words it *)
StayTooShort(a) == Nights(a) < listings[a.listing_id].minimum_stay

StayTooLong(a) ==
    /\ listings[a.listing_id].maximum_stay # NoMaxStay
    /\ Nights(a) > listings[a.listing_id].maximum_stay

(* The request gets as far as the stay-duration check *)
ReachesStayRule(a) ==
    /\ ListingBookable(a) /\ DatesInFuture(a) /\ a.guests >= 1
    /\ RangeOrdered(a) /\ WithinCapacity(a)

(* C11: a request that passes the checks before the stay-duration rule fails
   with StayDurationInvalid exactly when its nights are fewer than the
   listing's minimum_stay, or the listing has a maximum stay and the nights
   exceed it; nights equal to the minimum or to the maximum pass the rule,
   and a listing without a maximum stay has no upper bound. *)
StayDurationRuleExact ==
    \A a \in BookingRequests \cup NewListingRequests :
        ReachesStayRule(a)
        => /\ ValidationErrors(a) = {"StayDurationInvalid"}
                <=> (StayTooShort(a) \/ StayTooLong(a))
           /\ (Nights(a) = listings[a.listing_id].minimum_stay /\ ~StayTooLong(a))
                => ValidationErrors(a) \subseteq {"DateRangeUnavailable"}
           /\ (Nights(a) = listings[a.listing_id].maximum_stay /\ ~StayTooShort(a))
                => ValidationErrors(a) \subseteq {"DateRangeUnavailable"}
           /\ (listings[a.listing_id].maximum_stay = NoMaxStay /\ ~StayTooShort(a))
                => ValidationErrors(a) \subseteq {"DateRangeUnavailable"}

(* A stay of exactly the minimum and the maximum of its listing, for as many
   guests as the listing takes, was admitted, and a later request for the
   listing was refused for its duration *)
StayAtBothBoundsAdmitted ==
    /\ resp = {"StayDurationInvalid"}
    /\ \E i \in DOMAIN bookings :
          LET listing == listings[bookings[i].listing] IN
          /\ Nights(bookings[i]) = listing.minimum_stay
          /\ Nights(bookings[i]) = listing.maximum_stay
          /\ bookings[i].guests = listing.max_guests

----------------------------------------------------------------------------
(* The six admission rules of the specification all hold for request a *)
AllSixRulesHold(a) == PassesRules1To5(a) /\ ~BlockedByActiveBooking(a)

(* C12 as stated: a request creates a booking if and only if the six rules
   hold (listing bookable, both dates later than today, check-out after
   check-in, guests not above max_guests, stay within bounds, no active
   overlap); nothing else refuses a request. *)
CreatesIffSixRules ==
    \A a \in BookingRequests :
        /\ RefusedLast(a) => ~AllSixRulesHold(a)
        /\ ValidationErrors(a) = {} => AllSixRulesHold(a)

(* C12, amended: a request creates a booking if and only if the six rules
   hold and it asks for at least one guest; guests equal to max_guests is
   accepted, and every booking inserted is one whose request satisfied the
   rules in the state it was made in. *)
CreatesIffSixRulesAndAGuest ==
    /\ [](\A a \in BookingRequests :
            ValidationErrors(a) = {} <=> (AllSixRulesHold(a) /\ a.guests >= 1))
    /\ [][Len(bookings') > Len(bookings) =>
            /\ AllSixRulesHold(RequestOf(bookings'[Len(bookings')]))
            /\ bookings'[Len(bookings')].guests >= 1
            /\ resp' = {}]_vars

(* Two bookings, each for as many guests as its listing takes, were admitted *)
AdmittedAtCapacity ==
    /\ Len(bookings) = 2
    /\ \A i \in DOMAIN bookings :
          /\ bookings[i].guests = listings[bookings[i].listing].max_guests
          /\ bookings[i].status = "pending"
    /\ resp = {}

----------------------------------------------------------------------------
(* A row of the Booking table with every field set *)
CompleteBooking(b) ==
    /\ DOMAIN b = {"listing", "user", "check_in_date", "check_out_date",
                   "guests", "special_requests", "total_price", "status"}
    /\ b.listing \in DOMAIN listings
    /\ b.user \in Users
    /\ b.check_in_date \in Days /\ b.check_out_date \in Days
    /\ b.total_price \in Nat
    /\ b.status \in Statuses

(* C13: a refused booking request leaves the Booking table as it was, and an
   admitted one adds exactly one row, complete, in one step and touches no
   other row; no row without total_price, listing or owner is ever in the
   table. *)
RefusalWritesNothingInsertIsWhole ==
    /\ [](\A i \in DOMAIN bookings : CompleteBooking(bookings[i]))
    /\ [][/\ resp' # {} => bookings' = bookings
          /\ bookings' # bookings
                => /\ Len(bookings') = Len(bookings) + 1
                   /\ \A i \in DOMAIN bookings : bookings'[i] = bookings[i]
                   /\ CompleteBooking(bookings'[Len(bookings')])
                   /\ resp' = {}]_vars

(* A request was refused for its dates while the booking that holds them is
   the only row, and no handler is between validation and save *)
RefusedBesideTheOnlyBooking ==
    /\ resp = {"DateRangeUnavailable"}
    /\ Len(bookings) = 1
    /\ \A h \in Handlers : pc[h] = "idle"

----------------------------------------------------------------------------
(* C14: a status request refused with IllegalTransition leaves the stored
   status and every other field of the booking (and of every booking)
   unchanged, and the error text names the booking's current status as the
   source and the requested status as the target. *)
IllegalTransitionChangesNothingNamesBoth ==
    [][resp' = {"IllegalTransition"} =>
        /\ bookings' = bookings
        /\ \A i \in DOMAIN bookings, t \in Statuses :
             \A d \in {[status |-> t]} \cup {[status |-> t, special_requests |-> n] : n \in Notes} :
                StatusRequest(i, d)
                => LET message == validate_status_message(bookings[i].status, d.status) IN
                   /\ message[2] = bookings'[i].status
                   /\ message[4] = t
                   /\ ~validate_status(bookings'[i].status, t)]_vars

(* A confirmed booking carrying a note refused a transition and kept both *)
RefusedKeepsStatusAndNote ==
    /\ resp = {"IllegalTransition"}
    /\ \E i \in DOMAIN bookings :
          bookings[i].status = "confirmed" /\ bookings[i].special_requests = "late"

----------------------------------------------------------------------------
(* C15: every change of a booking's stored status is one of the four
   permitted transitions from the status stored just before the write, also
   when status updates of one booking interleave; in particular no write
   changes a status stored as cancelled or completed. *)
StoredStatusChangesPermitted ==
    [][\A i \in DOMAIN bookings :
          bookings'[i].status # bookings[i].status
          => /\ <<bookings[i].status, bookings'[i].status>> \in PermittedTransitions
             /\ bookings[i].status \notin {"cancelled", "completed"}]_vars

----------------------------------------------------------------------------
(* C16: every booking is inserted for a listing that, at the moment of the
   insert, is published and available, takes the booking's guests and allows
   its number of nights, also when a listing update is served between the
   request's validation and its create step. *)
InsertedOnlyWhileListingAdmits ==
    [][Len(bookings') > Len(bookings) =>
        LET b == bookings'[Len(bookings')]
            listing == listings'[b.listing]
        IN  /\ listing.status = "published"
            /\ listing.is_available
            /\ b.guests <= listing.max_guests
            /\ Nights(b) >= listing.minimum_stay
            /\ listing.maximum_stay # NoMaxStay => Nights(b) <= listing.maximum_stay]_vars

----------------------------------------------------------------------------
(* C17: after any sequence of listing updates, updates that submit only one
   of minimum_stay and maximum_stay included, every listing that has a
   maximum stay has maximum_stay >= minimum_stay, so that some number of
   nights satisfies the stay-duration rule of a booking request. *)
StayBoundsConsistent ==
    \A l \in DOMAIN listings :
        listings[l].maximum_stay # NoMaxStay
        => /\ listings[l].maximum_stay >= listings[l].minimum_stay
           /\ \E n \in 1..MaxStay :
                 n >= listings[l].minimum_stay /\ n <= listings[l].maximum_stay

=============================================================================
